---- MODULE Spec2Model ----
(***************************************************************************)
(* gh-otco-cli: the tabular data pipeline.                                 *)
(*   crates/api/src/lib.rs   GitHubClient::get_all_pages_array (Paginator) *)
(*   crates/cli/src/main.rs  main, output_array_with_projection,           *)
(*                           normalize_records, render_value, write_out    *)
(* Strings are sequences of byte codes, so that the lexicographic order    *)
(* of String / BTreeMap keys is computed and not assumed.                  *)
(***************************************************************************)
EXTENDS Integers, Sequences, FiniteSets, TLC

VARIABLES
    pc,         \* position of the run: see the actions
    max_pages,  \* lib.rs:100  the guard after unwrap_or(10)
    page,       \* lib.rs:98   let mut page = 1u32
    out,        \* lib.rs:99   let mut out = Vec::new()
    calls,      \* history: page numbers for which get_json was called
    resps,      \* history: the responses received, in order
    inflight,   \* number of get_json requests sent and not yet answered
    result,     \* what get_all_pages_array returned
    rows,       \* main.rs:746 the rows of output_array_with_projection
    text,       \* the rendered text handed to write_out
    writes,     \* history: the texts written to the output destination
    opts,       \* main.rs:741-743 the fields, sort, limit and fmt arguments in use
    prev,       \* history: the rows before the last step of the pipeline
    env,        \* the environment of the process (std::env)
    cli,        \* main.rs:65-80 the --api-url and --output arguments
    file,       \* main.rs:29-55 the FileConfig that was loaded
    resolved,   \* main.rs:434-438 the ResolvedConfig of the last resolve_config
    max_pages_arg \* lib.rs:96  the max_pages: Option<u32> the caller passed

vars == <<pc, max_pages, page, out, calls, resps, inflight, result, rows, text, writes,
          opts, prev, env, cli, file, resolved, max_pages_arg>>

(***************************************************************************)
(* Bounds of the model.                                                    *)
(***************************************************************************)
\* u32::MAX, scaled down from 2^32 - 1 so that the page counter can reach it.
U32_MAX == 11
\* per_page: the largest page the server returns.
PerPage == 2
\* The largest --pages value tried.
MaxGuard == 3

\* The server holds at most this many items in all.
MaxItems == U32_MAX

\* lib.rs:100  max_pages.unwrap_or(10)
DefaultMaxPages == 10

(***************************************************************************)
(* Bytes and strings.                                                      *)
(***************************************************************************)
\* The bytes the model uses, by name.
Ch == [quote |-> 34, comma |-> 44, minus |-> 45, zero |-> 48, colon |-> 58,
       lbrak |-> 91, rbrak |-> 93, lbrace |-> 123, rbrace |-> 125, space |-> 32,
       a |-> 97, b |-> 98, c |-> 99, k |-> 107, v |-> 118, x |-> 120, y |-> 121]

\* "true", "false" as bytes (bool::to_string)
str_true  == <<116, 114, 117, 101>>
str_false == <<102, 97, 108, 115, 101>>
str_null  == <<110, 117, 108, 108>>

\* Ord for str / String: lexicographic on bytes, a proper prefix is smaller.
RECURSIVE StrLess(_, _)
StrLess(s, t) ==
    IF t = <<>> THEN FALSE
    ELSE IF s = <<>> THEN TRUE
    ELSE IF Head(s) # Head(t) THEN Head(s) < Head(t)
    ELSE StrLess(Tail(s), Tail(t))

StrLeq(s, t) == s = t \/ StrLess(s, t)

(***************************************************************************)
(* serde_json::Value                                                       *)
(***************************************************************************)
JNull    == [t |-> "null", b |-> FALSE, n |-> 0, s |-> <<>>, a |-> <<>>, m |-> <<>>]
JBool(b) == [t |-> "bool", b |-> b,     n |-> 0, s |-> <<>>, a |-> <<>>, m |-> <<>>]
JNum(n)  == [t |-> "num",  b |-> FALSE, n |-> n, s |-> <<>>, a |-> <<>>, m |-> <<>>]
JStr(s)  == [t |-> "str",  b |-> FALSE, n |-> 0, s |-> s,    a |-> <<>>, m |-> <<>>]
JArr(a)  == [t |-> "arr",  b |-> FALSE, n |-> 0, s |-> <<>>, a |-> a,    m |-> <<>>]
JObj(m)  == [t |-> "obj",  b |-> FALSE, n |-> 0, s |-> <<>>, a |-> <<>>, m |-> m]

\* The item the server holds at position i of page p: a JSON object whose
\* "a" is its running number; odd items carry "b", even items carry "c".
ServerItem(p, i) ==
    LET id == (p - 1) * PerPage + i IN
    IF i % 2 = 1
    THEN JObj([k \in {<<Ch.a>>, <<Ch.b>>} |->
                 IF k = <<Ch.a>> THEN JNum(id) ELSE JStr(<<Ch.x>>)])
    ELSE JObj([k \in {<<Ch.a>>, <<Ch.c>>} |->
                 IF k = <<Ch.a>> THEN JNum(id) ELSE JBool(TRUE)])

ServerPage(p, len) == [i \in 1..len |-> ServerItem(p, i)]

(***************************************************************************)
(* Helpers for ordered containers (BTreeMap<String, _>).                   *)
(***************************************************************************)
Range(f) == {f[i] : i \in DOMAIN f}

\* The smallest string of a non-empty set.
MinStr(S) == CHOOSE x \in S : \A y \in S : StrLeq(x, y)

\* BTreeMap::keys / into_keys: the keys in ascending order.
RECURSIVE BTreeKeys(_)
BTreeKeys(S) ==
    IF S = {} THEN <<>>
    ELSE LET x == MinStr(S) IN <<x>> \o BTreeKeys(S \ {x})

\* Variant of the insertion: a new key goes to the end (an insertion-ordered
\* container instead of an ordered one).
BTreeInsert_Back(keys, k) ==
    IF \E i \in 1..Len(keys) : keys[i] = k THEN keys ELSE Append(keys, k)

\* BTreeMap::insert on the key sequence of a map: an existing key is kept
\* once, a new key goes to its place in the order.
RECURSIVE BTreeInsert(_, _)
BTreeInsert(keys, k) ==
    IF keys = <<>> THEN <<k>>
    ELSE IF Head(keys) = k THEN keys
    ELSE IF StrLess(k, Head(keys)) THEN <<k>> \o keys
    ELSE <<Head(keys)>> \o BTreeInsert(Tail(keys), k)

(***************************************************************************)
(* Display of values: main.rs:837-845 render_value                         *)
(***************************************************************************)
\* u64 Display: decimal digits, no leading zero
RECURSIVE NatToString(_)
NatToString(n) ==
    IF n < 10 THEN <<Ch.zero + n>>
    ELSE NatToString(n \div 10) \o <<Ch.zero + (n % 10)>>

\* serde_json::Number Display for an integer
NumToString(n) == IF n < 0 THEN <<Ch.minus>> \o NatToString(0 - n) ELSE NatToString(n)

\* bool::to_string
BoolToString(b) == IF b THEN str_true ELSE str_false

\* serde_json::Value Display (compact). Strings of the model hold no byte
\* that needs a JSON escape.
RECURSIVE JsonToString(_)
RECURSIVE JsonJoinArr(_, _)
RECURSIVE JsonJoinObj(_, _, _)
JsonToString(v) ==
    CASE v.t = "null" -> str_null
      [] v.t = "bool" -> BoolToString(v.b)
      [] v.t = "num"  -> NumToString(v.n)
      [] v.t = "str"  -> <<Ch.quote>> \o v.s \o <<Ch.quote>>
      [] v.t = "arr"  -> <<Ch.lbrak>> \o JsonJoinArr(v.a, 1) \o <<Ch.rbrak>>
      [] v.t = "obj"  -> <<Ch.lbrace>> \o JsonJoinObj(v.m, BTreeKeys(DOMAIN v.m), 1) \o <<Ch.rbrace>>
JsonJoinArr(a, i) ==
    IF i > Len(a) THEN <<>>
    ELSE (IF i > 1 THEN <<Ch.comma>> ELSE <<>>) \o JsonToString(a[i]) \o JsonJoinArr(a, i + 1)
JsonJoinObj(m, ks, i) ==
    IF i > Len(ks) THEN <<>>
    ELSE (IF i > 1 THEN <<Ch.comma>> ELSE <<>>)
         \o <<Ch.quote>> \o ks[i] \o <<Ch.quote, Ch.colon>> \o JsonToString(m[ks[i]])
         \o JsonJoinObj(m, ks, i + 1)

\* Variant of the cell rendering: the JSON text of every value.
render_value_Display(v) == JsonToString(v)

\* main.rs:837-845
render_value(v) ==
    CASE v.t = "null" -> <<>>
      [] v.t = "bool" -> BoolToString(v.b)
      [] v.t = "num"  -> NumToString(v.n)
      [] v.t = "str"  -> v.s
      [] OTHER        -> JsonToString(v)

(***************************************************************************)
(* main.rs:773-794 normalize_records                                       *)
(***************************************************************************)
\* Value::as_object: the map of an Object, None for anything else
IsObject(item) == item.t = "obj"

\* main.rs:777-779  for k in obj.keys() { keys.insert(k.clone(), ()) }
RECURSIVE InsertKeys(_, _, _)
InsertKeys(keys, ks, i) ==
    IF i > Len(ks) THEN keys
    ELSE InsertKeys(BTreeInsert(keys, ks[i]), ks, i + 1)

\* main.rs:774-782  the header: the keys of the Object items, collected in
\* item order into a BTreeMap
RECURSIVE CollectKeys(_, _, _)
CollectKeys(arr, i, keys) ==
    IF i > Len(arr) THEN keys
    ELSE IF IsObject(arr[i])
         THEN CollectKeys(arr, i + 1, InsertKeys(keys, BTreeKeys(DOMAIN arr[i].m), 1))
         ELSE CollectKeys(arr, i + 1, keys)

HeaderOf(arr) == CollectKeys(arr, 1, <<>>)

\* main.rs:788  obj.get(k).map(render_value).unwrap_or_default()
CellOf(item, k) ==
    IF IsObject(item) /\ k \in DOMAIN item.m THEN render_value(item.m[k]) ELSE <<>>

\* Variant of the row: only the keys the item itself has.
RowOf_OwnKeys(item, header) ==
    [k \in {x \in Range(header) : IsObject(item) /\ x \in DOMAIN item.m} |-> CellOf(item, k)]

\* main.rs:784-792  one row per item: a BTreeMap with one entry per header key
RowOf(item, header) == [k \in Range(header) |-> CellOf(item, k)]

normalize_records(arr) ==
    LET header == HeaderOf(arr) IN
    [i \in 1..Len(arr) |-> RowOf(arr[i], header)]

(***************************************************************************)
(* main.rs:738-771 output_array_with_projection                            *)
(***************************************************************************)
\* str::split(','): the pieces between the commas, empty pieces included
RECURSIVE SplitAt(_, _, _)
SplitAt(s, sep, cur) ==
    IF s = <<>> THEN <<cur>>
    ELSE IF Head(s) = sep THEN <<cur>> \o SplitAt(Tail(s), sep, <<>>)
    ELSE SplitAt(Tail(s), sep, Append(cur, Head(s)))

Split(s, sep) == SplitAt(s, sep, <<>>)

\* str::trim for the white space of the model (the space)
RECURSIVE TrimStart(_)
TrimStart(s) == IF s # <<>> /\ Head(s) = Ch.space THEN TrimStart(Tail(s)) ELSE s
RECURSIVE TrimEnd(_)
TrimEnd(s) ==
    IF s # <<>> /\ s[Len(s)] = Ch.space THEN TrimEnd(SubSeq(s, 1, Len(s) - 1)) ELSE s
Trim(s) == TrimEnd(TrimStart(s))

\* Variant of the field list: the pieces are not trimmed.
WantOf_NoTrim(fcsv) ==
    SelectSeq(Split(fcsv, Ch.comma), LAMBDA w : w # <<>>)

\* main.rs:748  split(',').map(trim).filter(!is_empty).collect()
WantOf(fcsv) ==
    LET parts == Split(fcsv, Ch.comma) IN
    SelectSeq([i \in 1..Len(parts) |-> Trim(parts[i])], LAMBDA w : w # <<>>)

\* main.rs:752  r.retain(|k, _| want.iter().any(|w| w == k))
Retain(r, want) == [k \in {x \in DOMAIN r : \E i \in 1..Len(want) : want[i] = x} |-> r[k]]

\* Variant of the projection: the first row is consumed as a header row.
Project_SkipFirst(rs, fields) ==
    IF fields.some
    THEN LET want == WantOf(fields.v) IN [i \in 1..(Len(rs) - 1) |-> Retain(rs[i + 1], want)]
    ELSE rs

\* main.rs:747-756
Project(rs, fields) ==
    IF fields.some
    THEN LET want == WantOf(fields.v) IN [i \in 1..Len(rs) |-> Retain(rs[i], want)]
    ELSE rs

\* str::trim_start_matches('-'): every leading '-' is removed
RECURSIVE TrimStartMatches(_, _)
TrimStartMatches(s, c) ==
    IF s # <<>> /\ Head(s) = c THEN TrimStartMatches(Tail(s), c) ELSE s

\* main.rs:758  s.starts_with('-')
StartsWith(s, c) == s # <<>> /\ Head(s) = c

\* Variant of the comparison: a row without the key is smaller than any row.
GetLess_MissingIsLess(a, b, key) ==
    IF key \in DOMAIN a /\ key \in DOMAIN b THEN StrLess(a[key], b[key]) ELSE TRUE

\* main.rs:760  a.get(&key).cmp(&b.get(&key)) = Less  (Option: None < Some)
GetLess(a, b, key) ==
    IF key \in DOMAIN b
    THEN IF key \in DOMAIN a THEN StrLess(a[key], b[key]) ELSE TRUE
    ELSE FALSE

\* Variant of the sort: a row goes in front of the rows equal to it.
RECURSIVE SortInsert_Unstable(_, _, _)
SortInsert_Unstable(sorted, r, key) ==
    IF sorted = <<>> THEN <<r>>
    ELSE IF ~GetLess(Head(sorted), r, key) THEN <<r>> \o sorted
    ELSE <<Head(sorted)>> \o SortInsert_Unstable(Tail(sorted), r, key)

\* slice::sort_by is stable: a row goes behind every row not greater than it
RECURSIVE SortInsert(_, _, _)
SortInsert(sorted, r, key) ==
    IF sorted = <<>> THEN <<r>>
    ELSE IF GetLess(r, Head(sorted), key) THEN <<r>> \o sorted
    ELSE <<Head(sorted)>> \o SortInsert(Tail(sorted), r, key)

RECURSIVE SortFrom(_, _, _, _)
SortFrom(rs, i, key, acc) ==
    IF i > Len(rs) THEN acc ELSE SortFrom(rs, i + 1, key, SortInsert(acc, rs[i], key))

SortBy(rs, key) == SortFrom(rs, 1, key, <<>>)

\* Vec::reverse
Reverse(q) == [i \in 1..Len(q) |-> q[Len(q) + 1 - i]]

\* Variant of the descending sort: a stable sort in descending order, which
\* keeps tied rows in their input order.
SortRows_StableDesc(rs, sort) ==
    IF sort.some
    THEN LET desc == StartsWith(sort.v, Ch.minus)
             key  == TrimStartMatches(sort.v, Ch.minus)
         IN IF desc THEN Reverse(SortBy(Reverse(rs), key)) ELSE SortBy(rs, key)
    ELSE rs

\* main.rs:757-762
SortRows(rs, sort) ==
    IF sort.some
    THEN LET desc == StartsWith(sort.v, Ch.minus)
             key  == TrimStartMatches(sort.v, Ch.minus)
             asc  == SortBy(rs, key)
         IN IF desc THEN Reverse(asc) ELSE asc
    ELSE rs

\* Variant of the truncation: one row too many is kept.
LimitRows_OffByOne(rs, limit) ==
    IF limit.some /\ Len(rs) > limit.v + 1 THEN SubSeq(rs, 1, limit.v + 1) ELSE rs

\* main.rs:763  if rows.len() > l { rows.truncate(l) }
LimitRows(rs, limit) ==
    IF limit.some /\ Len(rs) > limit.v THEN SubSeq(rs, 1, limit.v) ELSE rs

\* main.rs:746-763  the rows that are rendered
PipelineRows(arr, fields, sort, limit) ==
    LimitRows(SortRows(Project(normalize_records(arr), fields), sort), limit)

\* BTreeMap::keys / values of a row, in key order
RowKeys(r) == BTreeKeys(DOMAIN r)
RowValues(r) == LET ks == RowKeys(r) IN [i \in 1..Len(ks) |-> r[ks[i]]]

\* Variant of the header test: the header is written whenever a row exists.
DelimitedRecords_AlwaysHeader(rs) ==
    LET headers == IF Len(rs) > 0 THEN RowKeys(rs[1]) ELSE <<>>
        body == [i \in 1..Len(rs) |->
                   [j \in 1..Len(headers) |->
                      IF headers[j] \in DOMAIN rs[i] THEN rs[i][headers[j]] ELSE <<>>]]
    IN IF Len(rs) > 0 THEN <<headers>> \o body ELSE body

\* main.rs:852-871 delimited_to_string: the records handed to the csv
\* writer; the writer refuses a record whose length differs from the first
DelimitedRecords(rs) ==
    LET headers == IF Len(rs) > 0 THEN RowKeys(rs[1]) ELSE <<>>
        body == [i \in 1..Len(rs) |->
                   [j \in 1..Len(headers) |->
                      IF headers[j] \in DOMAIN rs[i] THEN rs[i][headers[j]] ELSE <<>>]]
    IN IF headers # <<>> THEN <<headers>> \o body ELSE body

delimited_to_string(rs, fmt) ==
    LET recs == DelimitedRecords(rs) IN
    IF \A i \in 1..Len(recs) : Len(recs[i]) = Len(recs[1])
    THEN [kind |-> "delimited", fmt |-> fmt, head |-> <<>>, body |-> recs]
    ELSE [kind |-> "error", fmt |-> fmt, head |-> <<>>, body |-> <<>>]

\* main.rs:873-883 table_to_string: the header and the rows given to the table
table_to_string(rs) ==
    [kind |-> "table", fmt |-> "table",
     head |-> IF Len(rs) > 0 THEN RowKeys(rs[1]) ELSE <<>>,
     body |-> [i \in 1..Len(rs) |-> RowValues(rs[i])]]

\* serde_json::to_string_pretty / serde_yaml::to_string of the rows: one
\* mapping per row, its entries in key order
DocumentOf(rs, fmt) ==
    [kind |-> "document", fmt |-> fmt, head |-> <<>>,
     body |-> [i \in 1..Len(rs) |->
                 LET ks == RowKeys(rs[i]) IN [j \in 1..Len(ks) |-> <<ks[j], rs[i][ks[j]]>>]]]

RenderError(fmt) == [kind |-> "error", fmt |-> fmt, head |-> <<>>, body |-> <<>>]
NoText == [kind |-> "none", fmt |-> "none", head |-> <<>>, body |-> <<>>]

\* main.rs:14-21 enum OutputFormat
Formats == {"json", "yaml", "csv", "psv", "table"}

\* main.rs:764-769  the text for each format
RenderRows(rs, fmt) ==
    CASE fmt \in {"json", "yaml"} -> DocumentOf(rs, fmt)
      [] fmt \in {"csv", "psv"}   -> delimited_to_string(rs, fmt)
      [] OTHER                    -> table_to_string(rs)

(***************************************************************************)
(* main.rs:544  the guard the CLI passes: --all gives Some(u32::MAX).      *)
(***************************************************************************)
None == [some |-> FALSE, v |-> 0]
NoStr == [some |-> FALSE, v |-> <<>>]
Some(v) == [some |-> TRUE, v |-> v]

\* main.rs:741-743  no --fields, no --sort, no --limit; fmt not yet used
NoOpts == [fields |-> NoStr, sort |-> NoStr, limit |-> None, fmt |-> "none"]

CliMaxPages(all, pages) == IF all THEN Some(U32_MAX) ELSE Some(pages)

\* lib.rs:100  Option::unwrap_or
UnwrapOr(opt, d) == IF opt.some THEN opt.v ELSE d

(***************************************************************************)
(* main.rs:441-464  resolve_config and the values it reads.                *)
(***************************************************************************)
\* The texts of the configuration, as bytes
Txt == [json   |-> <<106, 115, 111, 110>>,   yaml  |-> <<121, 97, 109, 108>>,
        csv    |-> <<99, 115, 118>>,         psv   |-> <<112, 115, 118>>,
        table  |-> <<116, 97, 98, 108, 101>>,
        JSON   |-> <<74, 83, 79, 78>>,       Yaml  |-> <<89, 97, 109, 108>>,
        bogus  |-> <<98, 111, 103, 117, 115>>,
        url_file |-> <<102, 105, 108, 101>>, url_env |-> <<101, 110, 118>>,
        url_cli  |-> <<99, 108, 105>>,       not_unicode |-> <<255>>]

\* str::to_lowercase on ASCII text
ToLowercase(s) == [i \in 1..Len(s) |-> IF s[i] \in 65..90 THEN s[i] + 32 ELSE s[i]]

\* main.rs:455-461  the match on env_output.as_str()
MatchOutput(s) ==
    CASE s = Txt.json -> "json"
      [] s = Txt.yaml -> "yaml"
      [] s = Txt.csv  -> "csv"
      [] s = Txt.psv  -> "psv"
      [] OTHER        -> "table"

\* A variable of the environment: unset, or set to bytes that are valid
\* Unicode or not
Unset == [set |-> FALSE, unicode |-> FALSE, v |-> <<>>]
SetTo(v) == [set |-> TRUE, unicode |-> TRUE, v |-> v]
SetToNotUnicode == [set |-> TRUE, unicode |-> FALSE, v |-> Txt.not_unicode]

EnvKeys == {"GITHUB_API_URL", "OTCO_OUTPUT"}
NoEnv == [k \in EnvKeys |-> Unset]

\* std::env::var(k).ok(): Err (so None) when k is unset or not valid Unicode
EnvVarOk(e, k) == IF e[k].set /\ e[k].unicode THEN Some(e[k].v) ELSE NoStr

\* Option<OutputFormat>::None
NoFormat == [some |-> FALSE, v |-> "none"]
\* main.rs:65-80  Cli without --api-url and --output
NoCli == [api_url |-> NoStr, output |-> NoFormat]
\* main.rs:29  #[derive(Default)] FileConfig: both strings empty
FileConfig_default == [api_url |-> <<>>, format |-> <<>>]
NoResolved == [api_url |-> <<>>, output |-> "none"]

\* Variant of resolve_config: the environment beats the command line.
resolve_config_EnvFirst(c, f, e) ==
    LET env_api    == EnvVarOk(e, "GITHUB_API_URL")
        env_out    == EnvVarOk(e, "OTCO_OUTPUT")
        api_url    == IF env_api.some THEN env_api.v
                      ELSE UnwrapOr(c.api_url, f.api_url)
        output     == IF env_out.some THEN MatchOutput(env_out.v)
                      ELSE IF c.output.some THEN c.output.v
                      ELSE MatchOutput(ToLowercase(f.format))
    IN [api_url |-> api_url, output |-> output]

\* main.rs:441-464 resolve_config
resolve_config(c, f, e) ==
    LET file_api    == f.api_url
        env_api     == EnvVarOk(e, "GITHUB_API_URL")
        api_url     == IF c.api_url.some THEN c.api_url.v
                       ELSE UnwrapOr(env_api, file_api)
        file_output == ToLowercase(f.format)
        env_output  == UnwrapOr(EnvVarOk(e, "OTCO_OUTPUT"), file_output)
        output      == IF c.output.some THEN c.output.v ELSE MatchOutput(env_output)
    IN [api_url |-> api_url, output |-> output]

(***************************************************************************)
(* GitHubClient::get_all_pages_array, lib.rs:91-117                        *)
(***************************************************************************)
Init ==
    /\ pc = "start"
    /\ max_pages = 0
    /\ page = 0
    /\ out = <<>>
    /\ calls = <<>>
    /\ resps = <<>>
    /\ inflight = 0
    /\ result = [kind |-> "none", items |-> <<>>]
    /\ rows = <<>>
    /\ text = NoText
    /\ writes = <<>>
    /\ opts = NoOpts
    /\ prev = <<>>
    /\ env = NoEnv
    /\ cli = NoCli
    /\ file = FileConfig_default
    /\ resolved = NoResolved
    /\ max_pages_arg = None

\* lib.rs:98-100  the state on entry, for the caller's max_pages
EnterPage == 1
\* Variant of the default: without a guard the loop is unbounded.
EnterGuard_NoDefault(arg) == UnwrapOr(arg, U32_MAX)
EnterGuard(arg) == UnwrapOr(arg, DefaultMaxPages)

\* main.rs:541-547  a list command of the CLI calls the Paginator
StartCli ==
    /\ pc = "start"
    /\ \E all \in BOOLEAN, pages \in 0..MaxGuard :
        /\ max_pages_arg' = CliMaxPages(all, pages)
        /\ max_pages' = EnterGuard(CliMaxPages(all, pages))
    /\ page' = EnterPage
    /\ out' = <<>>
    /\ pc' = "loop"
    /\ UNCHANGED <<env, cli, file, resolved, opts, prev, calls, resps, inflight, result, rows, text, writes>>

\* lib.rs:119-130  a direct caller of the library that passes no guard
StartLib ==
    /\ pc = "start"
    /\ max_pages_arg' = None
    /\ max_pages' = EnterGuard(None)
    /\ page' = EnterPage
    /\ out' = <<>>
    /\ pc' = "loop"
    /\ UNCHANGED <<env, cli, file, resolved, opts, prev, calls, resps, inflight, result, rows, text, writes>>

\* Variant of the loop: the guard is consulted before the page is requested.
SendRequest_GuardFirst ==
    /\ pc = "loop"
    /\ IF page > max_pages
       THEN /\ pc' = "returned"
            /\ result' = [kind |-> "ok", items |-> out]
            /\ UNCHANGED <<calls, inflight>>
       ELSE /\ calls' = Append(calls, page)
            /\ inflight' = inflight + 1
            /\ pc' = "await"
            /\ result' = result
    /\ UNCHANGED <<max_pages_arg, env, cli, file, resolved, opts, prev, max_pages, page, out, resps, rows, text, writes>>

\* lib.rs:102-105  the request for the current page is sent
SendRequest ==
    /\ pc = "loop"
    /\ calls' = Append(calls, page)
    /\ inflight' = inflight + 1
    /\ pc' = "await"
    /\ UNCHANGED <<max_pages_arg, env, cli, file, resolved, opts, prev, max_pages, page, out, resps, result, rows, text, writes>>

\* Variants of the break condition: the empty page ignored; the guard
\* compared with > instead of >=.
BreakLoop_GuardOnly(len, p, mx) == p >= mx
BreakLoop_OffByOne(len, p, mx) == len = 0 \/ p > mx
\* Variant of the break condition: only an empty page ends the loop.
BreakLoop_EmptyOnly(len, p, mx) == len = 0

\* lib.rs:110  if len == 0 || page >= max_pages { break; }
BreakLoop(len, p, mx) == len = 0 \/ p >= mx

\* Variant of the increment: a page number is skipped.
NextPage_Skip(p) == p + 2

\* lib.rs:114  page += 1
NextPage(p) == p + 1

\* Variant of the accumulation: the new page goes in front.
AppendAll_Front(acc, arr) == arr \o acc

\* lib.rs:109  out.append(&mut arr)
AppendAll(acc, arr) == acc \o arr

\* lib.rs:105-116  the response is an array of len items
RecvArray ==
    /\ pc = "await"
    /\ \E len \in 0..PerPage :
        /\ Len(out) + len <= MaxItems
        /\ LET arr == ServerPage(page, len) IN
            /\ resps' = Append(resps, [kind |-> "array", items |-> arr])
            /\ inflight' = inflight - 1
            /\ out' = AppendAll(out, arr)
            /\ IF BreakLoop(len, page, max_pages)
               THEN /\ pc' = "returned"
                    /\ result' = [kind |-> "ok", items |-> out']
                    /\ page' = page
               ELSE \* lib.rs:114  page += 1 on a u32
                    IF NextPage(page) <= U32_MAX
                    THEN /\ page' = NextPage(page)
                         /\ pc' = "loop"
                         /\ result' = result
                    ELSE \* overflow: a panic (debug) or a wrap to 0 (release)
                         \/ /\ pc' = "panic"
                            /\ page' = page
                            /\ result' = result
                         \/ /\ pc' = "loop"
                            /\ page' = 0
                            /\ result' = result
    /\ UNCHANGED <<max_pages_arg, env, cli, file, resolved, opts, prev, max_pages, calls, rows, text, writes>>

\* Variant of the failure path: the items fetched so far are returned.
RecvError_Partial ==
    /\ pc = "await"
    /\ resps' = Append(resps, [kind |-> "error", items |-> <<>>])
    /\ inflight' = inflight - 1
    /\ result' = [kind |-> "ok", items |-> out]
    /\ pc' = "returned"
    /\ UNCHANGED <<max_pages_arg, env, cli, file, resolved, opts, prev, max_pages, page, out, calls, rows, text, writes>>

\* lib.rs:105  get_json(..).await?  the request or its decoding failed
RecvError ==
    /\ pc = "await"
    /\ resps' = Append(resps, [kind |-> "error", items |-> <<>>])
    /\ inflight' = inflight - 1
    /\ result' = [kind |-> "err", items |-> <<>>]
    /\ pc' = "returned"
    /\ UNCHANGED <<max_pages_arg, env, cli, file, resolved, opts, prev, max_pages, page, out, calls, rows, text, writes>>

\* lib.rs:112  _ => break : the body is JSON but not an array
RecvNonArray ==
    /\ pc = "await"
    /\ resps' = Append(resps, [kind |-> "nonarray", items |-> <<>>])
    /\ inflight' = inflight - 1
    /\ result' = [kind |-> "ok", items |-> out]
    /\ pc' = "returned"
    /\ UNCHANGED <<max_pages_arg, env, cli, file, resolved, opts, prev, max_pages, page, out, calls, rows, text, writes>>

(***************************************************************************)
(* main.rs:541-547  what a list command does with the Paginator's result   *)
(***************************************************************************)
\* --fields, --sort, --limit and --output-file values tried by the runs
CliFieldsArg == Some(<<Ch.a, Ch.comma, Ch.space, Ch.c>>)
CliSortArg == Some(<<Ch.minus, Ch.a>>)
CliLimitArg == Some(1)
CliOptions ==
    { [fields |-> NoStr,        sort |-> NoStr,      limit |-> None],
      [fields |-> CliFieldsArg, sort |-> CliSortArg, limit |-> CliLimitArg] }
CliDests == {"stdout", "file"}

\* main.rs:545  .await? : the error of the Paginator leaves main
MainPropagate ==
    /\ pc = "returned"
    /\ result.kind = "err"
    /\ pc' = "exit_err"
    /\ UNCHANGED <<max_pages_arg, env, cli, file, resolved, opts, prev, max_pages, page, out, calls, resps, inflight, result, rows, text, writes>>

\* Variant of the rendering step: a serializer error is not propagated.
RenderArray_IgnoreError ==
    /\ pc = "returned"
    /\ result.kind = "ok"
    /\ \E fmt \in Formats, o \in CliOptions, serOk \in BOOLEAN :
        /\ (fmt \notin {"json", "yaml"} => serOk)
        /\ rows' = PipelineRows(result.items, o.fields, o.sort, o.limit)
        /\ text' = IF serOk THEN RenderRows(rows', fmt) ELSE RenderError(fmt)
        /\ pc' = "rendered"
    /\ UNCHANGED <<max_pages_arg, env, cli, file, resolved, opts, prev, max_pages, page, out, calls, resps, inflight, result, writes>>

\* main.rs:746-769  normalize, project, sort, limit and render to a string;
\* the serializers of the document formats return a Result
RenderArray ==
    /\ pc = "returned"
    /\ result.kind = "ok"
    /\ \E fmt \in Formats, o \in CliOptions, serOk \in BOOLEAN :
        /\ (fmt \notin {"json", "yaml"} => serOk)
        /\ rows' = PipelineRows(result.items, o.fields, o.sort, o.limit)
        /\ text' = IF serOk THEN RenderRows(rows', fmt) ELSE RenderError(fmt)
        /\ pc' = IF text'.kind = "error" THEN "exit_err" ELSE "rendered"
    /\ UNCHANGED <<max_pages_arg, env, cli, file, resolved, opts, prev, max_pages, page, out, calls, resps, inflight, result, writes>>

\* main.rs:847-850 write_out: fs::write to the file, or println! to stdout
WriteOut ==
    /\ pc = "rendered"
    /\ \E dest \in CliDests, ioOk \in BOOLEAN :
        /\ (dest = "stdout" => ioOk)
        /\ IF ioOk
           THEN /\ writes' = Append(writes, [dest |-> dest, text |-> text])
                /\ pc' = "exit_ok"
           ELSE /\ writes' = writes
                /\ pc' = "exit_err"
    /\ UNCHANGED <<max_pages_arg, env, cli, file, resolved, opts, prev, max_pages, page, out, calls, resps, inflight, result, rows, text>>

(***************************************************************************)
(* Properties of the Paginator and of a list command.                      *)
(***************************************************************************)
\* The lengths of the pages received (an error or a non-array body counts 0)
PageLens == [i \in 1..Len(resps) |-> Len(resps[i].items)]

IsEmptyPage(r) == r.kind = "array" /\ r.items = <<>>
IsNonEmptyPage(r) == r.kind = "array" /\ r.items # <<>>

\* The items of the first n responses, page after page
RECURSIVE FlattenPages(_, _)
FlattenPages(rs, n) ==
    IF n = 0 THEN <<>> ELSE FlattenPages(rs, n - 1) \o rs[n].items

Running == pc \in {"loop", "await"}

\* C1: the loop stops at the first empty page: when page k comes back empty,
\* exactly k fetch calls have been issued, the empty page is the last
\* response, and the loop is over; pages of 2, 1, 0 items give 3 calls and
\* 3 items.
C1_StopsAtFirstEmptyPage ==
    /\ \A k \in 1..Len(resps) :
          IsEmptyPage(resps[k]) =>
              /\ k = Len(resps)
              /\ Len(calls) = k
              /\ ~Running
              /\ result.kind = "ok"
    /\ (PageLens = <<2, 1, 0>> /\ \A k \in 1..3 : resps[k].kind = "array") =>
          /\ Len(calls) = 3
          /\ Len(result.items) = 3

C1_Witness ==
    /\ PageLens = <<2, 1, 0>>
    /\ \A k \in 1..3 : resps[k].kind = "array"
    /\ pc = "returned"
    /\ calls = <<1, 2, 3>>
    /\ Len(result.items) = 3

\* C2: with a guard n >= 1 no page number above n is requested; once page n
\* has been received the loop is over, and only pages 1..n are accumulated.
C2_BoundedGuard ==
    (pc # "start" /\ max_pages >= 1) =>
        /\ \A i \in 1..Len(calls) : calls[i] <= max_pages
        /\ Len(calls) <= max_pages
        /\ (Len(resps) = max_pages => ~Running)
        /\ out = FlattenPages(resps, Len(resps))

C2_Witness ==
    /\ max_pages = 1
    /\ pc = "returned"
    /\ calls = <<1>>
    /\ Len(resps) = 1
    /\ resps[1].kind = "array"
    /\ Len(resps[1].items) = PerPage
    /\ result.items = resps[1].items

\* C3: a failed fetch ends the run at once: it is the last response, no
\* request follows it, the result is the error and carries no item.
C3_FetchErrorAborts ==
    \A k \in 1..Len(resps) :
        resps[k].kind = "error" =>
            /\ k = Len(resps)
            /\ Len(calls) = k
            /\ pc \in {"returned", "exit_err"}
            /\ result.kind = "err"
            /\ result.items = <<>>
            /\ rows = <<>>
            /\ writes = <<>>

C3_Witness ==
    /\ Len(resps) = 2
    /\ IsNonEmptyPage(resps[1])
    /\ resps[2].kind = "error"
    /\ out # <<>>
    /\ result.kind = "err"
    /\ pc = "exit_err"

\* C4: a page whose body is not an array is a fatal error: the Paginator
\* returns an error, nothing is normalized or rendered and nothing is written.
C4_MalformedPageIsFatal ==
    \A k \in 1..Len(resps) :
        resps[k].kind = "nonarray" =>
            /\ result.kind = "err"
            /\ rows = <<>>
            /\ text = NoText
            /\ writes = <<>>

C6_SequentialPages ==
    /\ \A i \in 1..Len(calls) : calls[i] = i
    /\ inflight \in {0, 1}
    /\ inflight = Len(calls) - Len(resps)
    /\ pc = "await" =>
          /\ inflight = 1
          /\ page = Len(calls)
          /\ out = FlattenPages(resps, Len(calls) - 1)
          /\ \A k \in 1..Len(resps) : IsNonEmptyPage(resps[k])

C6_Witness ==
    /\ pc = "await"
    /\ calls = <<1, 2, 3>>
    /\ Len(resps) = 2
    /\ Len(out) = 2 * PerPage

\* C7: with the guard of --all the loop ends only on an empty page: while
\* every page received is a non-empty array, the loop goes on.
C7_UnboundedStopsOnlyOnEmpty ==
    (pc # "start" /\ max_pages = U32_MAX /\ \A k \in 1..Len(resps) : IsNonEmptyPage(resps[k]))
        => Running

\* C8: a successful result is the concatenation, in page order, of the
\* items of the pages fetched.
C8_ResultIsConcatenation ==
    /\ result.kind = "ok" => result.items = FlattenPages(resps, Len(resps))
    /\ pc # "start" => out = FlattenPages(resps, Len(resps))
    /\ \A i, j \in 1..Len(out) : i # j => out[i] # out[j]

C8_Witness ==
    /\ result.kind = "ok"
    /\ max_pages = 2
    /\ PageLens = <<2, 1>>
    /\ result.items = <<ServerItem(1, 1), ServerItem(1, 2), ServerItem(2, 1)>>

(***************************************************************************)
(* normalize_records on its own: the inputs are drawn from a bounded set   *)
(* of heterogeneous item sequences.                                        *)
(***************************************************************************)
\* The longest item sequence tried.
MaxNormLen == 2

NormKeys == {<<Ch.a>>, <<Ch.b>>, <<Ch.c>>}

\* The values an Object item may hold at each key: every variant of Value
NormValues(k) ==
    CASE k = <<Ch.a>> -> {JNum(1), JNum(0 - 20), JNull}
      [] k = <<Ch.b>> -> {JStr(<<Ch.x>>), JStr(<<Ch.y>>),
                          JObj([f \in {<<Ch.k>>} |-> JStr(<<Ch.v>>)])}
      [] OTHER        -> {JBool(TRUE), JBool(FALSE), JArr(<<JNum(1), JStr(<<Ch.x>>)>>)}

NormAllValues == UNION {NormValues(k) : k \in NormKeys}

\* Objects over the proper subsets of the keys
NormObjects ==
    UNION { { JObj(m) : m \in {f \in [ks -> NormAllValues] : \A k \in ks : f[k] \in NormValues(k)} }
            : ks \in (SUBSET NormKeys) \ {NormKeys} }

NormNonObjects == {JNull, JStr(<<Ch.x>>), JArr(<<JNum(1)>>)}

NormItems == NormObjects \cup NormNonObjects

NormInputs == UNION {[1..n -> NormItems] : n \in 0..MaxNormLen}

InitNorm ==
    /\ pc = "norm_start"
    /\ out \in NormInputs
    /\ max_pages = 0
    /\ page = 0
    /\ calls = <<>>
    /\ resps = <<>>
    /\ inflight = 0
    /\ result = [kind |-> "none", items |-> <<>>]
    /\ rows = <<>>
    /\ text = NoText
    /\ writes = <<>>
    /\ opts = NoOpts
    /\ prev = <<>>
    /\ env = NoEnv
    /\ cli = NoCli
    /\ file = FileConfig_default
    /\ resolved = NoResolved
    /\ max_pages_arg = None

\* main.rs:746 (and 723)  let rows = normalize_records(arr)
NormalizeRecords ==
    /\ pc = "norm_start"
    /\ rows' = normalize_records(out)
    /\ pc' = "norm_done"
    /\ UNCHANGED <<max_pages_arg, env, cli, file, resolved, opts, prev, max_pages, page, out, calls, resps, inflight, result, text, writes>>

NextNorm == NormalizeRecords

SpecNorm == InitNorm /\ [][NextNorm]_vars

(***************************************************************************)
(* Properties of normalize_records.                                        *)
(***************************************************************************)
ObjectIndexes(arr) == {i \in 1..Len(arr) : arr[i].t = "obj"}
KeyUnion(arr) == UNION {DOMAIN arr[i].m : i \in ObjectIndexes(arr)}

\* C9: the header is the ascending, duplicate-free union of the keys of the
\* Object items; there is one row per item, every row has the header's keys,
\* the row of a non-Object item holds only empty cells, and row i is the row
\* of item i.
C9_HeaderIsSortedUnion ==
    pc = "norm_done" =>
        LET header == HeaderOf(out) IN
        /\ \A i \in 1..(Len(header) - 1) : StrLess(header[i], header[i + 1])
        /\ Range(header) = KeyUnion(out)
        /\ Len(rows) = Len(out)
        /\ \A i \in 1..Len(rows) :
              /\ DOMAIN rows[i] = KeyUnion(out)
              /\ RowKeys(rows[i]) = header
              /\ i \notin ObjectIndexes(out) => \A k \in KeyUnion(out) : rows[i][k] = <<>>
              /\ i \in ObjectIndexes(out) =>
                    \A k \in KeyUnion(out) :
                        rows[i][k] # <<>> <=> (k \in DOMAIN out[i].m /\ out[i].m[k] # JNull)

C9_Witness ==
    /\ pc = "norm_done"
    /\ Len(out) = 2
    /\ out[1].t = "obj"
    /\ DOMAIN out[1].m = {<<Ch.c>>, <<Ch.b>>}
    /\ out[2] = JStr(<<Ch.x>>)
    /\ RowKeys(rows[1]) = << <<Ch.b>>, <<Ch.c>> >>
    /\ rows[2] = [k \in {<<Ch.b>>, <<Ch.c>>} |-> <<>>]

\* The text of a cell, written out value by value
CellText(v) ==
    CASE v = JNull -> <<>>
      [] v = JBool(TRUE) -> <<116, 114, 117, 101>>
      [] v = JBool(FALSE) -> <<102, 97, 108, 115, 101>>
      [] v = JNum(1) -> <<49>>
      [] v = JNum(0 - 20) -> <<45, 50, 48>>
      [] v.t = "str" -> v.s
      [] v = JArr(<<JNum(1), JStr(<<Ch.x>>)>>) -> <<91, 49, 44, 34, 120, 34, 93>>
      [] v = JObj([f \in {<<Ch.k>>} |-> JStr(<<Ch.v>>)]) ->
             <<123, 34, 107, 34, 58, 34, 118, 34, 125>>

ExampleItems ==
    << JObj([k \in {<<Ch.a>>, <<Ch.b>>} |-> IF k = <<Ch.a>> THEN JNum(1) ELSE JStr(<<Ch.x>>)]),
       JObj([k \in {<<Ch.b>>, <<Ch.c>>} |-> IF k = <<Ch.b>> THEN JStr(<<Ch.y>>) ELSE JBool(TRUE)]) >>

ExampleRows ==
    << [k \in NormKeys |-> CASE k = <<Ch.a>> -> <<49>> [] k = <<Ch.b>> -> <<120>> [] OTHER -> <<>>],
       [k \in NormKeys |-> CASE k = <<Ch.a>> -> <<>> [] k = <<Ch.b>> -> <<121>>
                             [] OTHER -> <<116, 114, 117, 101>>] >>

\* C10: the cell of row i at header key k is the text of item i's value at
\* k (Null "", Bool "true"/"false", Number its decimal text, String
\* verbatim), and "" when item i has no k; the example normalizes to
\* {a:"1",b:"x",c:""} and {a:"",b:"y",c:"true"}.
C10_CellsAreRenderedValues ==
    pc = "norm_done" =>
        /\ \A i \in 1..Len(out) : \A k \in KeyUnion(out) :
              /\ i \in DOMAIN rows
              /\ k \in DOMAIN rows[i]
              /\ rows[i][k] = IF out[i].t = "obj" /\ k \in DOMAIN out[i].m
                              THEN CellText(out[i].m[k]) ELSE <<>>
        /\ out = ExampleItems => rows = ExampleRows

C10_Witness ==
    /\ pc = "norm_done"
    /\ out = ExampleItems
    /\ rows = ExampleRows

(***************************************************************************)
(* output_array_with_projection on its own, statement by statement: the    *)
(* items and the --fields, --sort, --limit and format arguments are drawn  *)
(* from bounded sets.                                                      *)
(***************************************************************************)
\* The longest item sequence tried.
MaxPipeLen == 3

PipeObj(av, bv) ==
    JObj([k \in {<<Ch.a>>, <<Ch.b>>} |-> IF k = <<Ch.a>> THEN av ELSE bv])

\* Items with equal and different cells at "a" and at "b", an item without
\* "a", and an item that is no Object
PipeItems ==
    { PipeObj(JNum(1), JStr(<<Ch.x>>)),
      PipeObj(JNum(1), JStr(<<Ch.y>>)),
      PipeObj(JNum(0 - 20), JStr(<<Ch.x>>)),
      JObj([k \in {<<Ch.b>>, <<Ch.c>>} |-> IF k = <<Ch.b>> THEN JStr(<<Ch.y>>) ELSE JBool(TRUE)]),
      JNull }

PipeInputs == UNION {[1..n -> PipeItems] : n \in 0..MaxPipeLen}

\* --fields: absent, "", " , ", "c, x , a", "b"
PipeFields ==
    { NoStr,
      Some(<<>>),
      Some(<<Ch.space, Ch.comma, Ch.space>>),
      Some(<<Ch.c, Ch.comma, Ch.space, Ch.x, Ch.space, Ch.comma, Ch.space, Ch.a>>),
      Some(<<Ch.b>>) }

\* --sort: absent, "a", "-a", "b", "--b", "x", "-x"
PipeSorts ==
    { NoStr,
      Some(<<Ch.a>>),
      Some(<<Ch.minus, Ch.a>>),
      Some(<<Ch.b>>),
      Some(<<Ch.minus, Ch.minus, Ch.b>>),
      Some(<<Ch.x>>),
      Some(<<Ch.minus, Ch.x>>) }

\* --limit: absent, 0, 1, 2
PipeLimits == {None, Some(0), Some(1), Some(2)}

InitPipe ==
    /\ pc = "p_start"
    /\ out \in PipeInputs
    /\ max_pages = 0
    /\ page = 0
    /\ calls = <<>>
    /\ resps = <<>>
    /\ inflight = 0
    /\ result = [kind |-> "none", items |-> <<>>]
    /\ rows = <<>>
    /\ text = NoText
    /\ writes = <<>>
    /\ opts = NoOpts
    /\ prev = <<>>
    /\ env = NoEnv
    /\ cli = NoCli
    /\ file = FileConfig_default
    /\ resolved = NoResolved
    /\ max_pages_arg = None

\* main.rs:746  let mut rows = normalize_records(arr)
PipeNormalize ==
    /\ pc = "p_start"
    /\ rows' = normalize_records(out)
    /\ prev' = rows
    /\ pc' = "p_normalized"
    /\ UNCHANGED <<max_pages_arg, env, cli, file, resolved, max_pages, page, out, calls, resps, inflight, result, text, writes, opts>>

\* main.rs:747-756  the projection on --fields
PipeProject ==
    /\ pc = "p_normalized"
    /\ \E f \in PipeFields :
        /\ opts' = [opts EXCEPT !.fields = f]
        /\ rows' = Project(rows, f)
    /\ prev' = rows
    /\ pc' = "p_projected"
    /\ UNCHANGED <<max_pages_arg, env, cli, file, resolved, max_pages, page, out, calls, resps, inflight, result, text, writes>>

\* Variant of the order of the steps: the sort sees the rows as they were
\* before the projection.
PipeSort_BeforeProject ==
    /\ pc = "p_projected"
    /\ \E srt \in PipeSorts :
        /\ opts' = [opts EXCEPT !.sort = srt]
        /\ rows' = Project(SortRows(normalize_records(out), srt), opts.fields)
    /\ prev' = rows
    /\ pc' = "p_sorted"
    /\ UNCHANGED <<max_pages_arg, env, cli, file, resolved, max_pages, page, out, calls, resps, inflight, result, text, writes>>

\* main.rs:757-762  the sort on --sort
PipeSort ==
    /\ pc = "p_projected"
    /\ \E srt \in PipeSorts :
        /\ opts' = [opts EXCEPT !.sort = srt]
        /\ rows' = SortRows(rows, srt)
    /\ prev' = rows
    /\ pc' = "p_sorted"
    /\ UNCHANGED <<max_pages_arg, env, cli, file, resolved, max_pages, page, out, calls, resps, inflight, result, text, writes>>

\* main.rs:763  the truncation on --limit
PipeLimit ==
    /\ pc = "p_sorted"
    /\ \E l \in PipeLimits :
        /\ opts' = [opts EXCEPT !.limit = l]
        /\ rows' = LimitRows(rows, l)
    /\ prev' = rows
    /\ pc' = "p_limited"
    /\ UNCHANGED <<max_pages_arg, env, cli, file, resolved, max_pages, page, out, calls, resps, inflight, result, text, writes>>

\* main.rs:764-769  the text for the output format
PipeRender ==
    /\ pc = "p_limited"
    /\ \E fmt \in Formats :
        /\ opts' = [opts EXCEPT !.fmt = fmt]
        /\ text' = RenderRows(rows, fmt)
    /\ pc' = IF text'.kind = "error" THEN "p_error" ELSE "p_rendered"
    /\ UNCHANGED <<max_pages_arg, env, cli, file, resolved, max_pages, page, out, calls, resps, inflight, result, rows, writes, prev>>

NextPipe ==
    \/ PipeNormalize
    \/ PipeProject
    \/ PipeSort
    \/ PipeLimit
    \/ PipeRender

SpecPipe == InitPipe /\ [][NextPipe]_vars

(***************************************************************************)
(* Properties of the projection, the sort, the limit and the rendering.    *)
(***************************************************************************)
AfterNormalize ==
    pc \in {"p_normalized", "p_projected", "p_sorted", "p_limited", "p_rendered", "p_error"}

\* The field specifications by name
FieldsEmpty  == Some(<<>>)
FieldsBlank  == Some(<<Ch.space, Ch.comma, Ch.space>>)
FieldsCXA    == Some(<<Ch.c, Ch.comma, Ch.space, Ch.x, Ch.space, Ch.comma, Ch.space, Ch.a>>)
FieldsB      == Some(<<Ch.b>>)

\* The field names each non-empty specification lists
FieldNames(f) ==
    IF f = FieldsCXA THEN {<<Ch.c>>, <<Ch.x>>, <<Ch.a>>} ELSE {<<Ch.b>>}

\* C11: after normalize and after every later step all rows have the same
\* key set; a table has one cell per header column in every row, the records
\* of a delimited text all have the header's length, and the csv writer
\* never meets records of unequal length; a key an item lacks is an empty
\* cell of its row.
C11_RowsAreUniform ==
    AfterNormalize =>
        /\ \A i, j \in 1..Len(rows) : DOMAIN rows[i] = DOMAIN rows[j]
        /\ \A i \in 1..Len(rows) : RowKeys(rows[i]) = RowKeys(rows[1])
        /\ pc # "p_error"
        /\ pc = "p_normalized" =>
              \A i \in 1..Len(out) : \A k \in DOMAIN rows[1] :
                  /\ k \in DOMAIN rows[i]
                  /\ (~(IsObject(out[i]) /\ k \in DOMAIN out[i].m)) => rows[i][k] = <<>>
        /\ (pc = "p_rendered" /\ text.kind = "table") =>
              /\ Len(text.body) = Len(rows)
              /\ \A i \in 1..Len(rows) :
                    /\ text.head = RowKeys(rows[i])
                    /\ Len(text.body[i]) = Len(text.head)
        /\ (pc = "p_rendered" /\ text.kind = "delimited") =>
              \A i \in 1..Len(text.body) : Len(text.body[i]) = Len(RowKeys(rows[1]))

C11_Witness ==
    /\ pc = "p_rendered"
    /\ text.kind = "table"
    /\ opts.fields = FieldsCXA
    /\ opts.sort = Some(<<Ch.minus, Ch.a>>)
    /\ opts.limit = Some(2)
    /\ Len(out) = 3
    /\ \E i \in 1..3 : out[i] = JNull
    /\ \E i \in 1..3 : IsObject(out[i]) /\ <<Ch.c>> \in DOMAIN out[i].m
    /\ text.head = << <<Ch.a>>, <<Ch.c>> >>
    /\ Len(text.body) = 2
    /\ \A i \in 1..2 : Len(text.body[i]) = 2

\* C12: a projection whose field list is absent or lists no field ("" or
\* " , ") returns the rows unchanged.
C12_EmptyFieldsIsIdentity ==
    (pc = "p_projected" /\ opts.fields \in {NoStr, FieldsEmpty, FieldsBlank}) => rows = prev

\* C13: for a non-empty field list F the projected header is the header
\* restricted to F, in the header's order; a field not in the header is
\* dropped; the rows keep their number, their order and the kept cells.
C13_ProjectedHeaderIsIntersection ==
    (pc = "p_projected" /\ opts.fields \in {FieldsCXA, FieldsB}) =>
        LET F == FieldNames(opts.fields) IN
        /\ Len(rows) = Len(prev)
        /\ \A i \in 1..Len(rows) :
              /\ DOMAIN rows[i] = DOMAIN prev[i] \cap F
              /\ RowKeys(rows[i]) = SelectSeq(RowKeys(prev[i]), LAMBDA k : k \in F)
              /\ \A k \in DOMAIN rows[i] : rows[i][k] = prev[i][k]

C13_Witness ==
    /\ pc = "p_projected"
    /\ opts.fields = FieldsCXA
    /\ Len(rows) = 2
    /\ RowKeys(prev[1]) = << <<Ch.a>>, <<Ch.b>>, <<Ch.c>> >>
    /\ RowKeys(rows[1]) = << <<Ch.a>>, <<Ch.c>> >>
    /\ rows[1][<<Ch.a>>] # <<>>

\* C14: projecting the projected rows again with the same field list
\* changes nothing.
C14_ProjectionIsIdempotent ==
    pc = "p_projected" => Project(rows, opts.fields) = rows

C14_Witness ==
    /\ pc = "p_projected"
    /\ opts.fields = FieldsCXA
    /\ Len(rows) = 3
    /\ rows # prev
    /\ Project(rows, opts.fields) = rows

\* The sort specifications by name
SortA      == Some(<<Ch.a>>)
SortB      == Some(<<Ch.b>>)
SortX      == Some(<<Ch.x>>)
SortDescA  == Some(<<Ch.minus, Ch.a>>)
SortDescX  == Some(<<Ch.minus, Ch.x>>)
SortDescDescB == Some(<<Ch.minus, Ch.minus, Ch.b>>)

\* The cell a row shows at a key ("" when the row has no such key)
CellAt(r, key) == IF key \in DOMAIN r THEN r[key] ELSE <<>>

\* p tells, for each place of the result, the place the row had in the input
IsRearrangement(p, res, inp) ==
    /\ Len(res) = Len(inp)
    /\ \A i \in 1..Len(res) : res[i] = inp[p[i]]

\* C15: the ascending sort gives a permutation of the input rows in
\* non-decreasing order of the cell at the key ("" first), and rows with
\* equal cells keep their input order.
C15_AscendingSortIsStable ==
    (pc = "p_sorted" /\ opts.sort \in {SortA, SortB, SortX}) =>
        LET key == opts.sort.v IN
        \E p \in Permutations(1..Len(prev)) :
            /\ IsRearrangement(p, rows, prev)
            /\ \A i, j \in 1..Len(rows) :
                  i < j =>
                      /\ StrLeq(CellAt(rows[i], key), CellAt(rows[j], key))
                      /\ CellAt(rows[i], key) = CellAt(rows[j], key) => p[i] < p[j]

C15_Witness ==
    /\ pc = "p_sorted"
    /\ opts.sort = SortA
    /\ opts.fields = NoStr
    /\ Len(prev) = 3
    /\ CellAt(prev[1], <<Ch.a>>) = <<49>> /\ CellAt(prev[1], <<Ch.b>>) = <<Ch.x>>
    /\ CellAt(prev[2], <<Ch.a>>) = <<>>
    /\ CellAt(prev[3], <<Ch.a>>) = <<49>> /\ CellAt(prev[3], <<Ch.b>>) = <<Ch.y>>
    /\ rows = <<prev[2], prev[1], prev[3]>>

\* C16: the descending sort gives a permutation of the input rows in
\* non-increasing order of the cell at the key, and rows with equal cells
\* come in the reverse of their input order.
C16_DescendingSortReversesTies ==
    (pc = "p_sorted" /\ opts.sort \in {SortDescA, SortDescX}) =>
        LET key == Tail(opts.sort.v) IN
        \E p \in Permutations(1..Len(prev)) :
            /\ IsRearrangement(p, rows, prev)
            /\ \A i, j \in 1..Len(rows) :
                  i < j =>
                      /\ StrLeq(CellAt(rows[j], key), CellAt(rows[i], key))
                      /\ CellAt(rows[i], key) = CellAt(rows[j], key) => p[i] > p[j]

C16_Witness ==
    /\ pc = "p_sorted"
    /\ opts.sort = SortDescA
    /\ opts.fields = NoStr
    /\ Len(prev) = 3
    /\ CellAt(prev[1], <<Ch.a>>) = <<49>> /\ CellAt(prev[1], <<Ch.b>>) = <<Ch.x>>
    /\ CellAt(prev[2], <<Ch.a>>) = <<>>
    /\ CellAt(prev[3], <<Ch.a>>) = <<49>> /\ CellAt(prev[3], <<Ch.b>>) = <<Ch.y>>
    /\ rows = <<prev[3], prev[1], prev[2]>>

\* C17: the key is the specification without its first '-' only: "--b"
\* sorts descending by the key "-b", a specification without a leading '-'
\* sorts ascending by itself.
C17_KeyStripsOneMinus ==
    (pc = "p_sorted" /\ opts.sort.some) =>
        rows = IF StartsWith(opts.sort.v, Ch.minus)
               THEN Reverse(SortBy(prev, Tail(opts.sort.v)))
               ELSE SortBy(prev, opts.sort.v)

\* C18: when no row has the sort key, the ascending sort returns the rows in
\* their input order and the descending sort in the reversed order.
C18_UnknownSortKeyKeepsOrder ==
    (pc = "p_sorted" /\ opts.sort \in {SortA, SortB, SortX, SortDescA, SortDescX}) =>
        LET desc == opts.sort \in {SortDescA, SortDescX}
            key  == IF desc THEN Tail(opts.sort.v) ELSE opts.sort.v
        IN (\A i \in 1..Len(prev) : key \notin DOMAIN prev[i]) =>
               rows = IF desc THEN Reverse(prev) ELSE prev

C18_Witness ==
    /\ pc = "p_sorted"
    /\ opts.sort = SortX
    /\ opts.fields = NoStr
    /\ Len(prev) = 3
    /\ CellAt(prev[1], <<Ch.b>>) = <<Ch.y>>
    /\ CellAt(prev[2], <<Ch.b>>) = <<Ch.x>>
    /\ CellAt(prev[3], <<Ch.b>>) = <<>>
    /\ rows = prev

\* C19: the limit n keeps the first min(length, n) rows of the projected and
\* sorted rows: 0 keeps none, n >= length keeps all.
C19_LimitIsPrefixOfSorted ==
    (pc = "p_limited" /\ opts.limit.some) =>
        LET n == opts.limit.v
            m == IF Len(prev) < n THEN Len(prev) ELSE n
        IN /\ Len(rows) = m
           /\ \A i \in 1..m : rows[i] = prev[i]
           /\ (n = 0 => rows = <<>>)
           /\ (n >= Len(prev) => rows = prev)
           /\ prev = SortRows(Project(normalize_records(out), opts.fields), opts.sort)

C19_Witness ==
    /\ pc = "p_limited"
    /\ opts.limit = Some(1)
    /\ opts.sort = SortA
    /\ Len(prev) = 3
    /\ prev # Project(normalize_records(out), opts.fields)
    /\ rows = <<prev[1]>>
    /\ CellAt(rows[1], <<Ch.b>>) = <<Ch.x>>

\* The record a delimited rendering writes for a row under a header
RecordOf(r, h) == [j \in 1..Len(h) |-> CellAt(r, h[j])]

\* The header the delimited rendering uses: the keys of the first row
FirstRowKeys == IF Len(rows) > 0 THEN RowKeys(rows[1]) ELSE <<>>

IsDelimitedOutput == pc = "p_rendered" /\ text.kind = "delimited"

\* C20 as stated: the delimited rendering writes the header as its first
\* record exactly when a row exists, then one record per row with the cells
\* in header order; without rows it writes nothing, and with rows it writes
\* one record more than there are rows.
C20_HeaderIffRowExists ==
    IsDelimitedOutput =>
        IF Len(rows) = 0 THEN text.body = <<>>
        ELSE /\ Len(text.body) = Len(rows) + 1
             /\ text.body[1] = FirstRowKeys
             /\ \A i \in 1..Len(rows) : text.body[i + 1] = RecordOf(rows[i], FirstRowKeys)

\* C20 amended: the delimited rendering writes the header as its first
\* record exactly when a row exists and the header has at least one field;
\* it writes one record per row with the cells in header order in every
\* case, so the records are the rows plus one when the header is written and
\* the rows alone otherwise (none without rows).
C20_HeaderIffRowAndField ==
    IsDelimitedOutput =>
        LET written == IF Len(rows) > 0 /\ FirstRowKeys # <<>> THEN 1 ELSE 0 IN
        /\ Len(text.body) = Len(rows) + written
        /\ written = 1 => text.body[1] = FirstRowKeys
        /\ \A i \in 1..Len(rows) : text.body[i + written] = RecordOf(rows[i], FirstRowKeys)
        /\ Len(rows) = 0 => text.body = <<>>

C20_Witness ==
    /\ IsDelimitedOutput
    /\ text.fmt = "psv"
    /\ Len(rows) = 2
    /\ text.body = << <<(<<Ch.a>>), (<<Ch.b>>)>>,
                      RecordOf(rows[1], FirstRowKeys),
                      RecordOf(rows[2], FirstRowKeys) >>
    /\ text.body[2] # text.body[3]

(***************************************************************************)
(* main.rs:477-481  the start of main: the arguments are parsed, the file  *)
(* is loaded and resolve_config merges them with the environment.          *)
(***************************************************************************)
EnvApiValues    == {Unset, SetToNotUnicode, SetTo(Txt.url_env), SetTo(<<>>)}
EnvOutputValues == {Unset, SetToNotUnicode, SetTo(Txt.json), SetTo(Txt.JSON), SetTo(Txt.bogus)}
Envs == {e \in [EnvKeys -> EnvApiValues \cup EnvOutputValues] :
            /\ e["GITHUB_API_URL"] \in EnvApiValues
            /\ e["OTCO_OUTPUT"] \in EnvOutputValues}
CliArgs == [api_url : {NoStr, Some(Txt.url_cli)},
            output  : {NoFormat, Some("yaml"), Some("csv")}]
Files == [api_url : {<<>>, Txt.url_file},
          format  : {<<>>, Txt.yaml, Txt.Yaml, Txt.psv, Txt.bogus}]

InitCfg ==
    /\ pc = "c_start"
    /\ env \in Envs
    /\ cli = NoCli
    /\ file = FileConfig_default
    /\ resolved = NoResolved
    /\ max_pages_arg = None
    /\ max_pages = 0
    /\ page = 0
    /\ out = <<>>
    /\ calls = <<>>
    /\ resps = <<>>
    /\ inflight = 0
    /\ result = [kind |-> "none", items |-> <<>>]
    /\ rows = <<>>
    /\ text = NoText
    /\ writes = <<>>
    /\ opts = NoOpts
    /\ prev = <<>>

\* main.rs:477  let cli = Cli::parse()
ParseArgs ==
    /\ pc = "c_start"
    /\ cli' \in CliArgs
    /\ pc' = "c_parsed"
    /\ UNCHANGED <<max_pages_arg, env, file, resolved, opts, prev, max_pages, page, out, calls, resps,
                   inflight, result, rows, text, writes>>

\* main.rs:480  let file_cfg = load_file_config(cli.config.clone())?
LoadFileConfig ==
    /\ pc = "c_parsed"
    /\ file' \in Files
    /\ pc' = "c_loaded"
    /\ UNCHANGED <<max_pages_arg, env, cli, resolved, opts, prev, max_pages, page, out, calls, resps,
                   inflight, result, rows, text, writes>>

\* main.rs:481  let mut cfg = resolve_config(&cli, &file_cfg)
ResolveConfig ==
    /\ pc = "c_loaded"
    /\ resolved' = resolve_config(cli, file, env)
    /\ pc' = "c_resolved"
    /\ UNCHANGED <<max_pages_arg, env, cli, file, opts, prev, max_pages, page, out, calls, resps,
                   inflight, result, rows, text, writes>>

NextCfg == ParseArgs \/ LoadFileConfig \/ ResolveConfig
SpecCfg == InitCfg /\ [][NextCfg]_vars

\* C21 as stated: a command-line value wins, otherwise the value of the
\* environment variable is used whenever the variable is set, otherwise the
\* file's value; for the API URL and for the output format.
C21_CliThenEnvThenFile ==
    pc = "c_resolved" =>
        /\ resolved.api_url =
              IF cli.api_url.some THEN cli.api_url.v
              ELSE IF env["GITHUB_API_URL"].set THEN env["GITHUB_API_URL"].v
              ELSE file.api_url
        /\ resolved.output =
              IF cli.output.some THEN cli.output.v
              ELSE IF env["OTCO_OUTPUT"].set THEN MatchOutput(env["OTCO_OUTPUT"].v)
              ELSE MatchOutput(ToLowercase(file.format))

\* C21 amended: a command-line value wins, otherwise the value of the
\* environment variable is used when the variable is set to valid Unicode
\* text, otherwise (unset, or set to text that is not valid Unicode) the
\* file's value; for the API URL and for the output format.
C21_CliThenUnicodeEnvThenFile ==
    pc = "c_resolved" =>
        LET api == env["GITHUB_API_URL"]
            fmt == env["OTCO_OUTPUT"]
        IN /\ resolved.api_url =
                 IF cli.api_url.some THEN cli.api_url.v
                 ELSE IF api.set /\ api.unicode THEN api.v
                 ELSE file.api_url
           /\ resolved.output =
                 IF cli.output.some THEN cli.output.v
                 ELSE IF fmt.set /\ fmt.unicode THEN MatchOutput(fmt.v)
                 ELSE MatchOutput(ToLowercase(file.format))

C21_Witness ==
    /\ pc = "c_resolved"
    /\ cli = NoCli
    /\ env["GITHUB_API_URL"] = SetTo(Txt.url_env)
    /\ env["OTCO_OUTPUT"] = SetTo(Txt.json)
    /\ file = [api_url |-> Txt.url_file, format |-> Txt.yaml]
    /\ resolved = [api_url |-> Txt.url_env, output |-> "json"]

\* C22: without a guard (None) the Paginator behaves as Bounded(10): at most
\* 10 fetch calls, for pages 1..10 at most, even when every page is
\* non-empty, and after 10 non-empty pages the result is the success made of
\* the items of those 10 pages.
C22_NoGuardIsTenPages ==
    (pc # "start" /\ max_pages_arg = None) =>
        /\ max_pages = 10
        /\ Len(calls) <= 10
        /\ \A i \in 1..Len(calls) : calls[i] <= 10
        /\ (Len(resps) = 10 /\ \A k \in 1..10 : IsNonEmptyPage(resps[k])) =>
              /\ ~Running
              /\ result = [kind |-> "ok", items |-> FlattenPages(resps, 10)]

C22_Witness ==
    /\ max_pages_arg = None
    /\ pc = "returned"
    /\ Len(calls) = 10
    /\ Len(resps) = 10
    /\ \A k \in 1..10 : IsNonEmptyPage(resps[k])
    /\ result.kind = "ok"
    /\ Len(result.items) >= 10

\* max(1, n)
AtLeastOne(n) == IF n < 1 THEN 1 ELSE n

NormalizedHeader == HeaderOf(out)

Next ==
    \/ StartCli
    \/ StartLib
    \/ SendRequest
    \/ RecvArray
    \/ RecvError
    \/ RecvNonArray
    \/ MainPropagate
    \/ RenderArray
    \/ WriteOut

Spec == Init /\ [][Next]_vars

====
